---------------------------- MODULE Spec2Model ----------------------------
(***************************************************************************)
(* Ball-trajectory tracking core of BallTrackr: the position history with  *)
(* velocity on insert and FIFO eviction, and the recording-session         *)
(* lifecycle, as implemented twice: in the VolleyballTracker component     *)
(* (src/unnamed/part_000) and in RecordScreen                              *)
(* (src/src/screens/RecordScreen.tsx).                                     *)
(*                                                                         *)
(* Both are React function components.  A handler reads the state values   *)
(* of the render that created it: a button handler those of the latest     *)
(* render, the code after an await those of the render in which the        *)
(* handler started, the frame processor those of the render in which its   *)
(* dependency list last changed.  State setters take effect at the next    *)
(* render; refs (ballHistoryRef, simulationIntervalRef) and the fields of  *)
(* the session objects change at once.  Every action below is one handler  *)
(* run (up to its first await) or one resumption, followed by the render.  *)
(*                                                                         *)
(* Session objects are mutable and shared by reference: currentSession,    *)
(* sessions and the closures hold indexes into heap.                       *)
(*                                                                         *)
(* Sample coordinates and velocities are exact rationals; the rounding of  *)
(* IEEE doubles is not modelled.                                           *)
(***************************************************************************)
EXTENDS Integers, Sequences, FiniteSets, TLC

\* ------------------------------------------------------------------ bounds
\* Detections produced by the noisy detection source.
MaxDetections == 2
\* Frames produced by the steady detection source.
MaxSteadyFrames == 45
\* Session objects ever created.
MaxSessions == 2
\* Samples handed over by runOnJS and not yet run on the JS thread.
MaxInFlight == 1
\* Handlers suspended at an await.
MaxPending == 1
\* Session objects created plus samples produced.
MaxWork == 3
\* Samples in a snapshot handed to the statistics and the trail.
MaxSnapshot == 4
\* Earlier publications of the snapshot a reader can still hold.
MaxHeld == 2
\* The clock reads at most MaxClock seconds.
MaxClock == 1

\* ------------------------------------------------------- program constants
\* "Keep only last 30 positions for trajectory"
Capacity == 30
\* Period of the simulation interval and of the steady frame source, in ms.
FramePeriod == 50

NoSession == 0
NoTime == -1
NoVelocity == [unset |-> TRUE]

\* The positions the noisy detection source can report.
Points == {<<0, 0>>, <<10, 0>>, <<10, 4>>}
\* Date.now() is wall-clock time: it can stand still and can be set back.
ClockSteps == {-1000, 1000}

\* --------------------------------------------------------------- rationals
Abs(n) == IF n < 0 THEN -n ELSE n

RECURSIVE GCD(_, _)
GCD(a, b) == IF b = 0 THEN a ELSE GCD(b, a % b)

\* The rational n/d (d # 0) in lowest terms with a positive denominator.
Rat(n, d) ==
    LET g == GCD(Abs(n), Abs(d))
        s == IF d < 0 THEN -1 ELSE 1
    IN  <<(s * n) \div g, (s * d) \div g>>

RatDiv(p, q) == Rat(p[1] * q[2], p[2] * q[1])
RatPositive(p) == p[1] > 0
RatAdd(p, q) == Rat(p[1] * q[2] + q[1] * p[2], p[2] * q[2])
RatMul(p, q) == Rat(p[1] * q[1], p[2] * q[2])
RatLess(p, q) == p[1] * q[2] < q[1] * p[2]

\* Math.sqrt, on the rationals that are squares of rationals (the inputs are
\* chosen so that every speed is one; other roots are not modelled).
ISqrt(n) == CHOOSE r \in 0..n : r * r = n
MathSqrt(p) == <<ISqrt(p[1]), ISqrt(p[2])>>

\* Math.round: floor(x + 1/2), as an integer.
MathRound(p) == (2 * p[1] + p[2]) \div (2 * p[2])

\* arr.reduce((a, b) => a + b, 0)
RECURSIVE RatSum(_)
RatSum(arr) == IF arr = <<>> THEN Rat(0, 1) ELSE RatAdd(Head(arr), RatSum(Tail(arr)))

\* Math.max(...arr) for a non-empty arr
RECURSIVE MathMax(_)
MathMax(arr) ==
    IF Len(arr) = 1 THEN arr[1]
    ELSE LET m == MathMax(Tail(arr))
         IN  IF RatLess(Head(arr), m) THEN m ELSE Head(arr)

\* ----------------------------------------------------------------- samples
\* What the detection source hands to updateBallPosition: no velocity yet.
RawSample(x, y, t) == [x |-> x, y |-> y, timestamp |-> t, velocity |-> NoVelocity]

Last(s) == s[Len(s)]

\* The derivation with the time difference left in milliseconds.
withVelocityMillis(position, history) ==
    IF Len(history) > 0
    THEN LET lastPos == Last(history)
             deltaTime == Rat(position.timestamp - lastPos.timestamp, 1)
         IN  IF RatPositive(deltaTime)
             THEN [position EXCEPT !.velocity =
                      [x |-> RatDiv(Rat(position.x - lastPos.x, 1), deltaTime),
                       y |-> RatDiv(Rat(position.y - lastPos.y, 1), deltaTime)]]
             ELSE position
    ELSE position

\* updateBallPosition, first block: velocity against the most recent sample.
withVelocity(position, history) ==
    IF Len(history) > 0
    THEN LET lastPos == Last(history)
             deltaTime == Rat(position.timestamp - lastPos.timestamp, 1000)
         IN  IF RatPositive(deltaTime)
             THEN [position EXCEPT !.velocity =
                      [x |-> RatDiv(Rat(position.x - lastPos.x, 1), deltaTime),
                       y |-> RatDiv(Rat(position.y - lastPos.y, 1), deltaTime)]]
             ELSE position
    ELSE position

\* The push without the shift that evicts the oldest sample.
pushUnbounded(history, position) ==
    Append(history, position)

\* The push that refuses the newest sample once the history is full.
pushDropNewest(history, position) ==
    IF Len(history) >= Capacity THEN history ELSE Append(history, position)

\* updateBallPosition, second block: push, then shift once above the capacity.
pushBounded(history, position) ==
    LET pushed == Append(history, position)
    IN  IF Len(pushed) > Capacity THEN Tail(pushed) ELSE pushed

\* ------------------------------------------------------------------- state
VARIABLES
    screen,                 \* which component is mounted
    simulation,             \* VolleyballTracker renders its simulation branch
    now,                    \* Date.now(), in ms
    isTracking,             \* isTracking / isTrackingEnabled
    isRecording,
    currentSession,         \* NoSession or an index into heap
    sessions,               \* completed sessions: indexes into heap
    heap,                   \* the TrackingSession objects, by creation order
    ballHistoryRef,
    ballPositions,          \* the published snapshot
    published,              \* the array objects of the latest publications
    frameProcessor,         \* the state values the frame processor closed over
    inflight,               \* runOnJS(updateBallPosition) calls not yet run
    simulationIntervalRef,  \* NoInterval or the closure of the live interval
    pending,                \* handlers suspended at an await
    camera,                 \* the native recording and the closure of its callbacks
    saved,                  \* the record handed to persistence in this step, or NoRecord
    alert,                  \* the modal dialog on screen
    nDetections,            \* samples produced so far
    insertLog,              \* history: samples inserted since ballHistoryRef was last emptied
    detected                \* history: per session object, samples delivered while it was the active session

vars == <<screen, simulation, now, isTracking, isRecording, currentSession,
          sessions, heap, ballHistoryRef, ballPositions, published,
          frameProcessor, inflight, simulationIntervalRef, pending, camera,
          saved, alert, nDetections, insertLog, detected>>

NoInterval == [live |-> FALSE]
NoRecord == [handed |-> FALSE]
NoAlert == [kind |-> "none"]
CameraIdle == [state |-> "idle"]

Closure(t, r, c) == [isTracking |-> t, isRecording |-> r, currentSession |-> c]

Init ==
    /\ screen \in {"VolleyballTracker", "RecordScreen"}
    /\ simulation \in (IF screen = "VolleyballTracker" THEN BOOLEAN ELSE {FALSE})
    /\ now = 0
    /\ isTracking = (screen = "RecordScreen")
    /\ isRecording = FALSE
    /\ currentSession = NoSession
    /\ sessions = <<>>
    /\ heap = <<>>
    /\ ballHistoryRef = <<>>
    /\ ballPositions = <<>>
    /\ published = <<>>
    /\ frameProcessor = Closure(isTracking, FALSE, NoSession)
    /\ inflight = <<>>
    /\ simulationIntervalRef = NoInterval
    /\ pending = <<>>
    /\ camera = CameraIdle
    /\ saved = NoRecord
    /\ alert = NoAlert
    /\ nDetections = 0
    /\ insertLog = <<>>
    /\ detected = <<>>

\* ------------------------------------------------------- shared operations
Remove(s, i) == SubSeq(s, 1, i - 1) \o SubSeq(s, i + 1, Len(s))

\* const newSession = {id: Date.now().toString(), startTime: Date.now(), positions: []}
\* (the id is kept as the number: toString is one-to-one on it)
newSession == [id |-> now, startTime |-> now, endTime |-> NoTime, positions |-> <<>>]

\* An array object a reader got from setBallPositions: `at` is what it held
\* when it was published, `array` what it holds now, `alias` whether it is
\* the object ballHistoryRef.current points to.
\* setBallPositions(ballHistoryRef.current): the history array itself.
sameArray(arr) == [alias |-> TRUE, at |-> arr, array |-> arr]

\* setBallPositions([...ballHistoryRef.current]): a new array object.
spreadCopy(arr) == [alias |-> FALSE, at |-> arr, array |-> arr]

\* The publications still held: the latest MaxHeld.
held(seq) == IF Len(seq) > MaxHeld THEN Tail(seq) ELSE seq

\* push and shift change ballHistoryRef.current in place: every holder of
\* that object sees the new contents.
mutated(seq, contents) ==
    [k \in DOMAIN seq |->
        IF seq[k].alias THEN [seq[k] EXCEPT !.array = contents] ELSE seq[k]]

\* ballHistoryRef.current = []: the ref leaves its former array object.
released(seq) == [k \in DOMAIN seq |-> [seq[k] EXCEPT !.alias = FALSE]]

\* updateBallPosition run with the values (r, c) of isRecording and
\* currentSession it closed over.
updateBallPosition(position, r, c) ==
    LET enriched == withVelocity(position, ballHistoryRef)
        history == pushBounded(ballHistoryRef, enriched)
    IN  /\ ballHistoryRef' = history
        /\ ballPositions' = history
        /\ published' = held(Append(mutated(published, history), spreadCopy(history)))
        /\ heap' = IF r /\ c # NoSession
                   THEN [heap EXCEPT ![c].positions = Append(@, enriched)]
                   ELSE heap
        /\ insertLog' = Append(insertLog, enriched)
        /\ detected' = IF isRecording /\ currentSession # NoSession
                       THEN [detected EXCEPT ![currentSession] = Append(@, enriched)]
                       ELSE detected

\* The clear that empties the published snapshot and forgets the ref.
clearTrajectoryStateOnly ==
    /\ ballHistoryRef' = ballHistoryRef
    /\ ballPositions' = <<>>
    /\ published' = held(Append(published, spreadCopy(<<>>)))
    /\ insertLog' = <<>>

\* clearTrajectory: ballHistoryRef.current = []; setBallPositions([])
clearTrajectory ==
    /\ ballHistoryRef' = <<>>
    /\ ballPositions' = <<>>
    /\ published' = held(Append(released(published), spreadCopy(<<>>)))
    /\ insertLog' = <<>>

\* ------------------------------------------------------------- statistics
NoStats == [null |-> TRUE]

\* getTrajectoryStats, evaluated in every render on the ballPositions state:
\* the speeds of the samples that carry a velocity.
velocities ==
    LET carrying == SelectSeq(ballPositions, LAMBDA pos : pos.velocity # NoVelocity)
    IN  [i \in 1..Len(carrying) |->
            MathSqrt(RatAdd(RatMul(carrying[i].velocity.x, carrying[i].velocity.x),
                            RatMul(carrying[i].velocity.y, carrying[i].velocity.y)))]

\* The mean taken over all samples of the snapshot.
avgSpeedOverSnapshot ==
    IF Len(velocities) > 0
    THEN RatDiv(RatSum(velocities), Rat(Len(ballPositions), 1))
    ELSE Rat(0, 1)

avgSpeed ==
    IF Len(velocities) > 0
    THEN RatDiv(RatSum(velocities), Rat(Len(velocities), 1))
    ELSE Rat(0, 1)

maxSpeed == IF Len(velocities) > 0 THEN MathMax(velocities) ELSE Rat(0, 1)

\* The span between the first and the last sample that carry a velocity.
durationOfCarrying ==
    LET carrying == SelectSeq(ballPositions, LAMBDA pos : pos.velocity # NoVelocity)
    IN  IF Len(carrying) > 0
        THEN Rat(Last(carrying).timestamp - carrying[1].timestamp, 1000)
        ELSE Rat(0, 1)

duration ==
    IF Len(ballPositions) > 0
    THEN Rat(Last(ballPositions).timestamp - ballPositions[1].timestamp, 1000)
    ELSE Rat(0, 1)

\* The summary withheld up to two samples.
getTrajectoryStatsAboveTwo ==
    IF Len(ballPositions) <= 2 THEN NoStats
    ELSE [avgSpeed |-> MathRound(avgSpeed),
          maxSpeed |-> MathRound(maxSpeed),
          duration |-> duration]

\* The summary withheld until two samples carry a velocity.
getTrajectoryStatsTwoVelocities ==
    IF Len(velocities) < 2 THEN NoStats
    ELSE [avgSpeed |-> MathRound(avgSpeed),
          maxSpeed |-> MathRound(maxSpeed),
          duration |-> duration]

getTrajectoryStats ==
    IF Len(ballPositions) < 2 THEN NoStats
    ELSE [avgSpeed |-> MathRound(avgSpeed),
          maxSpeed |-> MathRound(maxSpeed),
          duration |-> duration]

\* ------------------------------------------------------------ trail rendering
\* Math.max of two numbers.
RatMax(p, q) == IF RatLess(p, q) THEN q ELSE p

\* arr.slice(-n): the last n elements, in order.
slice(arr, n) ==
    IF Len(arr) <= n THEN arr ELSE SubSeq(arr, Len(arr) - n + 1, Len(arr))

\* VolleyballTracker: ballPositions.slice(-10).map((pos, index) => <Circle
\* r={Math.max(3, 8 - index)} fill={rgba(255, 0, 0, 0.3 - index * 0.03)} />).
\* map's index counts from the start of the slice, its oldest element.
VT_trailMarkers ==
    LET window == slice(ballPositions, 10)
    IN  [k \in 1..Len(window) |->
            LET index == k - 1
            IN  [pos |-> window[k],
                 r |-> RatMax(Rat(3, 1), Rat(8 - index, 1)),
                 opacity |-> Rat(30 - index * 3, 100)]]

\* RecordScreen: ballPositions.slice(-15).map((pos, index) => <Circle
\* r={Math.max(4, 12 - index * 0.5)} fill={rgba(139, 195, 74, 0.6 - index * 0.04)} />).
RS_trailMarkers ==
    LET window == slice(ballPositions, 15)
    IN  [k \in 1..Len(window) |->
            LET index == k - 1
            IN  [pos |-> window[k],
                 r |-> RatMax(Rat(4, 1), Rat(24 - index, 2)),
                 opacity |-> Rat(60 - index * 4, 100)]]

\* BallTrailOverlay.createTrailPoints: for i in 0..trailLength-1,
\* age = trailLength - i, opacity = Math.max(0.1, 1 - age / trailLength),
\* radius = Math.max(2, 8 * opacity).
createTrailPoints(ballTrail) ==
    LET trailLength == Len(ballTrail)
    IN  [k \in 1..trailLength |->
            LET i == k - 1
                age == trailLength - i
                opacity == RatMax(Rat(1, 10), Rat(trailLength - age, trailLength))
            IN  [pos |-> ballTrail[k],
                 age |-> age,
                 opacity |-> opacity,
                 radius |-> RatMax(Rat(2, 1), RatMul(Rat(8, 1), opacity))]]

\* VideoPlayerWithTracking: video.ballDetections.map((pos, index) => <Circle
\* r={Math.max(3, 10 - (length - index) * 0.2)}
\* fill={rgba(255, 68, 68, Math.max(0.2, 1 - (length - index) * 0.05))} />).
storedDetectionMarkers(ballDetections) ==
    LET length == Len(ballDetections)
    IN  [k \in 1..length |->
            LET index == k - 1
            IN  [pos |-> ballDetections[k],
                 r |-> RatMax(Rat(3, 1), Rat(50 - (length - index), 5)),
                 opacity |-> RatMax(Rat(1, 5), Rat(20 - (length - index), 20))]]

\* <Polyline points={positions.map(pos => `${pos.x},${pos.y}`).join(' ')} />,
\* rendered when positions.length > 1: the points the line passes through.
trajectoryLine(positions) ==
    IF Len(positions) > 1
    THEN [k \in DOMAIN positions |-> <<positions[k].x, positions[k].y>>]
    ELSE <<>>

\* BallTrailOverlay.createTrailLines: for i in 0..points.length-2 a line
\* from points[i] to points[i + 1].
createTrailLines(points) ==
    [k \in 1..(Len(points) - 1) |->
        [from |-> points[k].pos,
         to |-> points[k + 1].pos,
         opacity |-> IF RatLess(points[k + 1].opacity, points[k].opacity)
                     THEN points[k + 1].opacity ELSE points[k].opacity,
         strokeWidth |-> RatMax(Rat(1, 1), RatDiv(points[k].radius, Rat(2, 1)))]]

\* ------------------------------------------------------ environment: clock
Tick ==
    /\ \E s \in ClockSteps :
          /\ now + s >= 0
          /\ now + s <= MaxClock * 1000
          /\ now' = now + s
    /\ saved' = NoRecord
    /\ UNCHANGED <<screen, simulation, isTracking, isRecording, currentSession,
                   sessions, heap, ballHistoryRef, ballPositions, published, frameProcessor,
                   inflight, simulationIntervalRef, pending, camera, alert,
                   nDetections, insertLog, detected>>

\* --------------------------------------------- frame processor and runOnJS
\* The worklet runs on the camera thread while a Camera is mounted; it reads
\* the tracking flag it closed over and hands the sample to the JS thread.
detectFrame(position) ==
    /\ ~simulation
    /\ frameProcessor.isTracking
    /\ Len(inflight) < MaxInFlight
    /\ inflight' = Append(inflight, [position |-> position,
                                     isRecording |-> frameProcessor.isRecording,
                                     currentSession |-> frameProcessor.currentSession])
    /\ nDetections' = nDetections + 1
    /\ saved' = NoRecord
    /\ UNCHANGED <<screen, simulation, isTracking, isRecording, currentSession,
                   sessions, heap, ballHistoryRef, ballPositions, published, frameProcessor,
                   simulationIntervalRef, pending, camera, alert,
                   insertLog, detected>>

\* The noisy source: any of Points, stamped with the clock.
Detect ==
    /\ nDetections < MaxDetections
    /\ nDetections + Len(heap) < MaxWork
    /\ \E p \in Points : detectFrame(RawSample(p[1], p[2], now))
    /\ now' = now

\* The steady source: one frame every FramePeriod ms, the ball moving right
\* at 200 px/s.
SteadyFrame ==
    /\ nDetections < MaxSteadyFrames
    /\ now' = now + FramePeriod
    /\ detectFrame(RawSample(now' \div 5, 100, now'))

Deliver ==
    /\ inflight # <<>>
    /\ updateBallPosition(Head(inflight).position, Head(inflight).isRecording,
                          Head(inflight).currentSession)
    /\ inflight' = Tail(inflight)
    /\ saved' = NoRecord
    /\ UNCHANGED <<screen, simulation, now, isTracking, isRecording, currentSession,
                   sessions, frameProcessor, simulationIntervalRef, pending,
                   camera, alert, nDetections>>

\* ------------------------------------------------------- VolleyballTracker
\* toggleTracking.  The frame processor depends on [isTracking]: the next
\* render closes over the state of that render.  startSimulation runs inside
\* this handler, so its interval callback closes over this render's values.
VT_toggleTracking ==
    /\ screen = "VolleyballTracker"
    /\ isTracking' = ~isTracking
    /\ IF ~isTracking
       THEN /\ clearTrajectory
            /\ simulationIntervalRef' =
                  IF simulation
                  THEN [live |-> TRUE, isTracking |-> isTracking,
                        isRecording |-> isRecording, currentSession |-> currentSession]
                  ELSE simulationIntervalRef
       ELSE /\ simulationIntervalRef' = NoInterval
            /\ UNCHANGED <<ballHistoryRef, ballPositions, published, insertLog>>
    /\ frameProcessor' = Closure(~isTracking, isRecording, currentSession)
    /\ saved' = NoRecord
    /\ UNCHANGED <<screen, simulation, now, isRecording, currentSession, sessions,
                   heap, inflight, pending, camera, alert, nDetections,
                   detected>>

\* The callback of setInterval(..., 50) in startSimulation: if (isTracking) {...}
\* with the isTracking of the render that called startSimulation.
VT_simulationTick ==
    /\ screen = "VolleyballTracker"
    /\ simulationIntervalRef.live
    /\ IF simulationIntervalRef.isTracking
       THEN /\ nDetections < MaxDetections
            /\ nDetections + Len(heap) < MaxWork
            /\ nDetections' = nDetections + 1
            /\ \E p \in Points :
                  updateBallPosition(RawSample(p[1], p[2], now),
                                     simulationIntervalRef.isRecording,
                                     simulationIntervalRef.currentSession)
            /\ saved' = NoRecord
            /\ UNCHANGED <<screen, simulation, now, isTracking, isRecording,
                           currentSession, sessions, frameProcessor, inflight,
                           simulationIntervalRef, pending, camera, alert>>
       ELSE UNCHANGED vars

\* toggleRecording, branch if (!isRecording); the button is disabled unless
\* isTracking.  startVideoRecording returns at once without a camera.
VT_startRecording ==
    /\ screen = "VolleyballTracker"
    /\ isTracking
    /\ ~isRecording
    /\ Len(heap) < MaxSessions
    /\ nDetections + Len(heap) < MaxWork
    /\ heap' = Append(heap, newSession)
    /\ detected' = Append(detected, <<>>)
    /\ currentSession' = Len(heap) + 1
    /\ isRecording' = TRUE
    /\ camera' = IF ~simulation /\ camera.state = "idle"
                 THEN [state |-> "recording", session |-> Len(heap) + 1,
                       ballPositions |-> ballPositions]
                 ELSE camera
    /\ saved' = NoRecord
    /\ UNCHANGED <<screen, simulation, now, isTracking, sessions, ballHistoryRef,
                   ballPositions, published, frameProcessor, inflight, simulationIntervalRef,
                   pending, alert, nDetections, insertLog>>

\* handleSimulationRecording up to its await: the record it hands to
\* saveVideoToStorage.
simulationRecord(c) ==
    [handed |-> TRUE, ballDetections |-> ballHistoryRef, session |-> c,
     detected |-> detected[c]]

\* toggleRecording, else branch, up to its await.
VT_stopRecording ==
    /\ screen = "VolleyballTracker"
    /\ isTracking
    /\ isRecording
    /\ isRecording' = FALSE
    /\ IF currentSession # NoSession
       THEN /\ Len(pending) < MaxPending
            /\ heap' = [heap EXCEPT ![currentSession].endTime = now]
            /\ sessions' = Append(sessions, currentSession)
            /\ pending' = Append(pending, [kind |-> "VT_stop"])
            /\ IF simulation
               THEN /\ saved' = simulationRecord(currentSession)
                    /\ camera' = camera
               ELSE /\ saved' = NoRecord
                    /\ camera' = IF camera.state = "recording"
                                 THEN [camera EXCEPT !.state = "finishing"]
                                 ELSE camera
       ELSE /\ saved' = NoRecord
            /\ UNCHANGED <<heap, sessions, pending, camera>>
    /\ UNCHANGED <<screen, simulation, now, isTracking, currentSession,
                   ballHistoryRef, ballPositions, published, frameProcessor, inflight,
                   simulationIntervalRef, alert, nDetections, insertLog, detected>>

\* toggleRecording after its await: setCurrentSession(null).
VT_stopResumed ==
    /\ screen = "VolleyballTracker"
    /\ \E i \in DOMAIN pending :
          /\ pending[i].kind = "VT_stop"
          /\ pending' = Remove(pending, i)
    /\ currentSession' = NoSession
    /\ saved' = NoRecord
    /\ UNCHANGED <<screen, simulation, now, isTracking, isRecording, sessions, heap,
                   ballHistoryRef, ballPositions, published, frameProcessor, inflight,
                   simulationIntervalRef, camera, alert, nDetections,
                   insertLog, detected>>

\* onRecordingFinished -> handleRecordingFinished: ballDetections is a copy of
\* ballHistoryRef.current at the time the callback runs.
VT_handleRecordingFinished ==
    /\ screen = "VolleyballTracker"
    /\ camera.state = "finishing"
    /\ saved' = [handed |-> TRUE, ballDetections |-> ballHistoryRef,
                 session |-> camera.session, detected |-> detected[camera.session]]
    /\ camera' = CameraIdle
    /\ UNCHANGED <<screen, simulation, now, isTracking, isRecording, currentSession,
                   sessions, heap, ballHistoryRef, ballPositions, published, frameProcessor,
                   inflight, simulationIntervalRef, pending, alert, nDetections,
                   insertLog, detected>>

VT_clearTrajectory ==
    /\ screen = "VolleyballTracker"
    /\ clearTrajectory
    /\ saved' = NoRecord
    /\ UNCHANGED <<screen, simulation, now, isTracking, isRecording, currentSession,
                   sessions, heap, frameProcessor, inflight, simulationIntervalRef,
                   pending, camera, alert, nDetections, detected>>

\* ------------------------------------------------------------ RecordScreen
\* No recording session is active.
Idle == ~isRecording /\ currentSession = NoSession

\* Alert.alert('Error', ...) of a catch block or of onRecordingError; a dialog
\* already on screen stays in front.
errorAlert == IF alert = NoAlert THEN [kind |-> "error"] ELSE alert

\* resetRecording: setIsRecording(false); clearTrajectory(); setCurrentSession(null)
resetRecording ==
    /\ isRecording' = FALSE
    /\ clearTrajectory
    /\ currentSession' = NoSession

\* toggleTracking (disabled while recording): clears when tracking was off.
\* The frame processor depends on [isTrackingEnabled, trackingSettings].
RS_toggleTracking ==
    /\ screen = "RecordScreen"
    /\ alert = NoAlert
    /\ ~isRecording
    /\ isTracking' = ~isTracking
    /\ IF ~isTracking
       THEN clearTrajectory
       ELSE UNCHANGED <<ballHistoryRef, ballPositions, published, insertLog>>
    /\ frameProcessor' = Closure(~isTracking, isRecording, currentSession)
    /\ saved' = NoRecord
    /\ UNCHANGED <<screen, simulation, now, isRecording, currentSession, sessions,
                   heap, inflight, simulationIntervalRef, pending, camera, alert, nDetections, detected>>

\* A slider of the settings panel (shown only while not recording):
\* setTrackingSettings makes the next render build a new frame processor.
RS_setTrackingSettings ==
    /\ screen = "RecordScreen"
    /\ alert = NoAlert
    /\ ~isRecording
    /\ frameProcessor' = Closure(isTracking, isRecording, currentSession)
    /\ saved' = NoRecord
    /\ UNCHANGED <<screen, simulation, now, isTracking, isRecording, currentSession,
                   sessions, heap, ballHistoryRef, ballPositions, published, inflight,
                   simulationIntervalRef, pending, camera, alert,
                   nDetections, insertLog, detected>>

\* The "Clear Trajectory" button of the settings panel.
RS_clearTrajectory ==
    /\ screen = "RecordScreen"
    /\ alert = NoAlert
    /\ ~isRecording
    /\ clearTrajectory
    /\ saved' = NoRecord
    /\ UNCHANGED <<screen, simulation, now, isTracking, isRecording, currentSession,
                   sessions, heap, frameProcessor, inflight, simulationIntervalRef,
                   pending, camera, alert, nDetections, detected>>

\* startRecording from the record button (which shows it while !isRecording),
\* camera.startRecording succeeding.  The callbacks handed to the camera are
\* those of this render: saveRecording reads this render's ballPositions.
RS_startRecording ==
    /\ screen = "RecordScreen"
    /\ alert = NoAlert
    /\ ~isRecording
    /\ camera.state = "idle"
    /\ isRecording' = TRUE
    /\ IF isTracking
       THEN /\ Len(heap) < MaxSessions
            /\ nDetections + Len(heap) < MaxWork
            /\ heap' = Append(heap, newSession)
            /\ detected' = Append(detected, <<>>)
            /\ currentSession' = Len(heap) + 1
            /\ clearTrajectory
       ELSE UNCHANGED <<heap, detected, currentSession, ballHistoryRef,
                        ballPositions, published, insertLog>>
    /\ camera' = [state |-> "recording",
                  session |-> IF isTracking THEN Len(heap) + 1 ELSE NoSession,
                  ballPositions |-> ballPositions]
    /\ saved' = NoRecord
    /\ UNCHANGED <<screen, simulation, now, isTracking, sessions, frameProcessor,
                   inflight, simulationIntervalRef, pending, alert,
                   nDetections>>

\* startRecording with camera.startRecording throwing: the catch block runs
\* resetRecording in the same turn (the session object it made is dropped).
RS_startRecordingFailed ==
    /\ screen = "RecordScreen"
    /\ alert = NoAlert
    /\ ~isRecording
    /\ resetRecording
    /\ alert' = errorAlert
    /\ saved' = NoRecord
    /\ UNCHANGED <<screen, simulation, now, isTracking, sessions, heap,
                   frameProcessor, inflight, simulationIntervalRef, pending, camera,
                   nDetections, detected>>

\* stopRecording up to its await, run with the currentSession c it closed
\* over; idle records whether the call was made while no session was active.
stopRecording(c) ==
    /\ Len(pending) < MaxPending
    /\ pending' = Append(pending, [kind |-> "RS_stop", currentSession |-> c,
                                   idle |-> Idle])
    /\ camera' = IF camera.state = "recording"
                 THEN [camera EXCEPT !.state = "finishing"]
                 ELSE camera

\* stopRecording from the record button (which shows it while isRecording).
RS_stopRecording ==
    /\ screen = "RecordScreen"
    /\ alert = NoAlert
    /\ isRecording
    /\ stopRecording(currentSession)
    /\ saved' = NoRecord
    /\ UNCHANGED <<screen, simulation, now, isTracking, isRecording, currentSession,
                   sessions, heap, ballHistoryRef, ballPositions, published, frameProcessor,
                   inflight, simulationIntervalRef, alert, nDetections,
                   insertLog, detected>>

\* backAction: the hardware back button while isRecording opens the dialog,
\* whose "Stop & Go Back" button keeps the stopRecording of this render.
RS_backAction ==
    /\ screen = "RecordScreen"
    /\ alert = NoAlert
    /\ isRecording
    /\ alert' = [kind |-> "back", currentSession |-> currentSession]
    /\ saved' = NoRecord
    /\ UNCHANGED <<screen, simulation, now, isTracking, isRecording, currentSession,
                   sessions, heap, ballHistoryRef, ballPositions, published, frameProcessor,
                   inflight, simulationIntervalRef, pending, camera, nDetections, insertLog, detected>>

\* navigation.goBack() leaves the tab; a tab screen stays mounted and keeps
\* its state.
RS_alertStopAndGoBack ==
    /\ screen = "RecordScreen"
    /\ alert.kind = "back"
    /\ stopRecording(alert.currentSession)
    /\ alert' = NoAlert
    /\ saved' = NoRecord
    /\ UNCHANGED <<screen, simulation, now, isTracking, isRecording, currentSession,
                   sessions, heap, ballHistoryRef, ballPositions, published, frameProcessor,
                   inflight, simulationIntervalRef, nDetections, insertLog,
                   detected>>

\* "Cancel" of the back dialog, "Go Back" of the saved dialog, "OK" of an
\* error dialog.
RS_alertDismiss ==
    /\ screen = "RecordScreen"
    /\ alert # NoAlert
    /\ alert' = NoAlert
    /\ saved' = NoRecord
    /\ UNCHANGED <<screen, simulation, now, isTracking, isRecording, currentSession,
                   sessions, heap, ballHistoryRef, ballPositions, published, frameProcessor,
                   inflight, simulationIntervalRef, pending, camera, nDetections, insertLog, detected>>

\* stopRecording after its await: finalize the session it closed over.
RS_stopResumed ==
    /\ screen = "RecordScreen"
    /\ \E i \in DOMAIN pending :
          /\ pending[i].kind = "RS_stop"
          /\ pending' = Remove(pending, i)
          /\ IF pending[i].currentSession # NoSession
             THEN /\ heap' = [heap EXCEPT ![pending[i].currentSession].endTime = now]
                  /\ sessions' = Append(sessions, pending[i].currentSession)
                  /\ currentSession' = NoSession
             ELSE UNCHANGED <<heap, sessions, currentSession>>
    /\ isRecording' = FALSE
    /\ saved' = NoRecord
    /\ UNCHANGED <<screen, simulation, now, isTracking, ballHistoryRef,
                   ballPositions, published, frameProcessor, inflight, simulationIntervalRef,
                   camera, alert, nDetections, insertLog, detected>>

\* stopRecording with camera.stopRecording rejecting: catch -> resetRecording.
RS_stopFailed ==
    /\ screen = "RecordScreen"
    /\ \E i \in DOMAIN pending :
          /\ pending[i].kind = "RS_stop"
          /\ pending' = Remove(pending, i)
    /\ resetRecording
    /\ alert' = errorAlert
    /\ saved' = NoRecord
    /\ UNCHANGED <<screen, simulation, now, isTracking, sessions, heap,
                   frameProcessor, inflight, simulationIntervalRef, camera,
                   nDetections, detected>>

\* onRecordingFinished -> saveRecording: videoData.ballPositions is the
\* ballPositions of the render whose startRecording made the callback.
RS_saveRecording ==
    /\ screen = "RecordScreen"
    /\ camera.state = "finishing"
    /\ saved' = [handed |-> TRUE, ballDetections |-> camera.ballPositions,
                 session |-> camera.session,
                 detected |-> IF camera.session # NoSession
                              THEN detected[camera.session] ELSE <<>>]
    /\ camera' = CameraIdle
    /\ alert' = IF alert = NoAlert THEN [kind |-> "saved"] ELSE alert
    /\ UNCHANGED <<screen, simulation, now, isTracking, isRecording, currentSession,
                   sessions, heap, ballHistoryRef, ballPositions, published, frameProcessor,
                   inflight, simulationIntervalRef, pending, nDetections, insertLog,
                   detected>>

\* "Record Another" of the saved dialog: resetRecording.
RS_alertRecordAnother ==
    /\ screen = "RecordScreen"
    /\ alert.kind = "saved"
    /\ resetRecording
    /\ alert' = NoAlert
    /\ saved' = NoRecord
    /\ UNCHANGED <<screen, simulation, now, isTracking, sessions, heap,
                   frameProcessor, inflight, simulationIntervalRef, pending, camera,
                   nDetections, detected>>

\* onRecordingError: resetRecording.
RS_onRecordingError ==
    /\ screen = "RecordScreen"
    /\ camera.state # "idle"
    /\ resetRecording
    /\ camera' = CameraIdle
    /\ alert' = errorAlert
    /\ saved' = NoRecord
    /\ UNCHANGED <<screen, simulation, now, isTracking, sessions, heap,
                   frameProcessor, inflight, simulationIntervalRef, pending,
                   nDetections, detected>>

\* ----------------------------------------------------------- specifications
Next ==
    \/ Tick
    \/ Detect
    \/ Deliver
    \/ VT_toggleTracking
    \/ VT_simulationTick
    \/ VT_startRecording
    \/ VT_stopRecording
    \/ VT_stopResumed
    \/ VT_handleRecordingFinished
    \/ VT_clearTrajectory
    \/ RS_toggleTracking
    \/ RS_setTrackingSettings
    \/ RS_clearTrajectory
    \/ RS_startRecording
    \/ RS_startRecordingFailed
    \/ RS_stopRecording
    \/ RS_backAction
    \/ RS_alertStopAndGoBack
    \/ RS_alertDismiss
    \/ RS_stopResumed
    \/ RS_stopFailed
    \/ RS_saveRecording
    \/ RS_alertRecordAnother
    \/ RS_onRecordingError

Spec == Init /\ [][Next]_vars

\* The buffer under a long steady stream of frames.
NextBuffer ==
    \/ SteadyFrame
    \/ Deliver
    \/ VT_toggleTracking
    \/ VT_clearTrajectory
    \/ RS_toggleTracking
    \/ RS_clearTrajectory

SpecBuffer == Init /\ [][NextBuffer]_vars

\* The buffer under the noisy source and a clock that can stand still or be
\* set back: every way the history is filled and emptied, without recording.
NextInsert ==
    \/ Tick
    \/ Detect
    \/ Deliver
    \/ VT_toggleTracking
    \/ VT_simulationTick
    \/ VT_clearTrajectory
    \/ RS_toggleTracking
    \/ RS_clearTrajectory

SpecInsert == Init /\ [][NextInsert]_vars

\* What a render shows, over every history of up to MaxSnapshot samples:
\* each sample is one of RenderPoints, stamped RenderSteps after the sample
\* before it, and was inserted by updateBallPosition.
RenderPoints == {<<0, 0>>, <<3, 0>>, <<3, 4>>}
RenderSteps == {-1000, 0, 1000}

RECURSIVE Fill(_, _, _, _)
Fill(run, i, history, t) ==
    IF i > Len(run) THEN history
    ELSE LET position == RawSample(run[i][1][1], run[i][1][2], t + run[i][2])
         IN  Fill(run, i + 1, pushBounded(history, withVelocity(position, history)),
                  t + run[i][2])

InitRender ==
    /\ screen \in {"VolleyballTracker", "RecordScreen"}
    /\ simulation = FALSE
    /\ now = MaxSnapshot * 1000
    /\ isTracking = TRUE
    /\ isRecording = FALSE
    /\ currentSession = NoSession
    /\ sessions = <<>>
    /\ heap = <<>>
    /\ \E n \in 0..MaxSnapshot :
          \E run \in [1..n -> RenderPoints \X RenderSteps] :
             ballHistoryRef = Fill(run, 1, <<>>, now)
    /\ ballPositions = ballHistoryRef
    /\ published = IF ballHistoryRef = <<>> THEN <<>> ELSE <<spreadCopy(ballHistoryRef)>>
    /\ insertLog = ballHistoryRef
    /\ frameProcessor = Closure(TRUE, FALSE, NoSession)
    /\ inflight = <<>>
    /\ simulationIntervalRef = NoInterval
    /\ pending = <<>>
    /\ camera = CameraIdle
    /\ saved = NoRecord
    /\ alert = NoAlert
    /\ nDetections = Len(ballHistoryRef)
    /\ detected = <<>>

NextRender ==
    \/ VT_toggleTracking
    \/ VT_clearTrajectory
    \/ RS_toggleTracking
    \/ RS_clearTrajectory

SpecRender == InitRender /\ [][NextRender]_vars


-----------------------------------------------------------------------------
\* Trajectory buffer.

\* C1: the history and its published snapshot never hold more than 30
\* samples.
C1_CapacityNeverExceeded ==
    /\ Len(ballHistoryRef) <= 30
    /\ Len(ballPositions) <= 30

\* More samples than the capacity were inserted and the history is full.
C1_FullAfterEviction ==
    /\ Len(insertLog) > 30
    /\ Len(ballHistoryRef) = 30
    /\ Len(ballPositions) = 30

\* C2: once more than 30 samples were inserted without a clear, the snapshot
\* has exactly 30 samples and they are the last 30 inserted, in insertion
\* order.
C2_LastThirtyInOrder ==
    Len(insertLog) > 30 =>
        /\ Len(ballPositions) = 30
        /\ \A i \in 1..30 : ballPositions[i] = insertLog[Len(insertLog) - 30 + i]

\* Of 45 inserted samples, the 16th to the 45th remain.
C2_FortyFiveInserted ==
    /\ Len(insertLog) = 45
    /\ ballPositions = SubSeq(insertLog, 16, 45)
    /\ ballPositions[1] # insertLog[1]

\* C3: a sample inserted after a sample whose timestamp is dt > 0 seconds
\* earlier has velocity (dx / dt, dy / dt); when the timestamp is not later
\* than its predecessor's, the velocity is left unset.
C3_VelocityFromPredecessor ==
    \A i \in 2..Len(ballPositions) :
        LET prev == ballPositions[i - 1]
            cur == ballPositions[i]
            ms == cur.timestamp - prev.timestamp
        IN  IF ms > 0
            THEN cur.velocity = [x |-> Rat((cur.x - prev.x) * 1000, ms),
                                 y |-> Rat((cur.y - prev.y) * 1000, ms)]
            ELSE cur.velocity = NoVelocity

\* (0, 0) at t = 0 followed by (10, 0) at t = 1000 ms: velocity (10, 0).
C3_TenPerSecond ==
    /\ Len(ballPositions) = 2
    /\ ballPositions[1] = RawSample(0, 0, 0)
    /\ ballPositions[2].x = 10 /\ ballPositions[2].y = 0
    /\ ballPositions[2].timestamp = 1000
    /\ ballPositions[2].velocity = [x |-> Rat(10, 1), y |-> Rat(0, 1)]

\* C4: the first sample inserted into an empty history never carries a
\* velocity.
C4_FirstSampleHasNoVelocity ==
    Len(insertLog) >= 1 => insertLog[1].velocity = NoVelocity

\* A history that held a sample was cleared and then received a first
\* sample with a later timestamp.
C4_FirstAfterClear ==
    /\ nDetections = 2
    /\ inflight = <<>>
    /\ Len(insertLog) = 1
    /\ ballHistoryRef = insertLog
    /\ insertLog[1].timestamp = 1000

-----------------------------------------------------------------------------
\* Recording sessions.

\* C5: every sample delivered while a session is the active session is
\* appended to that session's positions: a session that saw k detections
\* holds k positions.
C5_SessionHoldsEveryDetection ==
    \A s \in DOMAIN heap : heap[s].positions = detected[s]

\* C6: a stop that runs to completion has set endTime on the session, has
\* appended it to the completed sessions, and ends with no current session
\* and isRecording false.
C6_StopFinalizesAndIdles ==
    [][(VT_stopResumed \/ RS_stopResumed) =>
          /\ isRecording' = FALSE
          /\ currentSession' = NoSession
          /\ currentSession # NoSession =>
                /\ heap'[currentSession].endTime # NoTime
                /\ \E i \in DOMAIN sessions' : sessions'[i] = currentSession]_vars

\* C7: the record handed to persistence for a session holds every sample
\* detected while that session was active, in the order of detection.
C7_RecordHoldsEveryDetection ==
    (saved.handed /\ saved.session # NoSession) =>
        \E at \in [DOMAIN saved.detected -> DOMAIN saved.ballDetections] :
            /\ \A i \in DOMAIN saved.detected :
                  saved.ballDetections[at[i]] = saved.detected[i]
            /\ \A i, j \in DOMAIN saved.detected : i < j => at[i] < at[j]

\* C8: a session in the completed sessions list never changes again.
C8_CompletedSessionFrozen ==
    [][\A s \in DOMAIN heap :
          (\E i \in DOMAIN sessions : sessions[i] = s) => heap'[s] = heap[s]]_vars

\* C9: a start with tracking on creates a session with empty positions and
\* leaves the history and the published snapshot empty.
C9_StartClearsBuffer ==
    [][((VT_startRecording \/ RS_startRecording) /\ isTracking) =>
          /\ currentSession' # NoSession
          /\ heap'[currentSession'].positions = <<>>
          /\ ballHistoryRef' = <<>>
          /\ ballPositions' = <<>>]_vars

\* C10: a start while a session is active (the current session has been
\* started and not stopped) is rejected: the current session stays the same
\* session, unchanged.
C10_StartWhileActiveRejected ==
    [][((VT_startRecording \/ RS_startRecording \/ RS_startRecordingFailed)
          /\ currentSession # NoSession
          /\ heap[currentSession].endTime = NoTime) =>
          /\ currentSession' = currentSession
          /\ heap' = heap]_vars

\* C11: a stop called while no session is active changes no state: when it
\* has run to its end, the completed sessions, the session objects, the
\* current session and the buffer are what they were.
C11_StopWhileIdleChangesNothing ==
    [][((RS_stopResumed \/ RS_stopFailed)
          /\ \E i \in DOMAIN pending :
                /\ pending[i].kind = "RS_stop"
                /\ pending[i].idle
                /\ pending' = Remove(pending, i)) =>
          UNCHANGED <<sessions, heap, currentSession, ballHistoryRef,
                      ballPositions>>]_vars

\* C12: a stop called while no session is active signals an error: when it
\* has run to its end, an error is reported.
C12_StopWhileIdleSignalsError ==
    [][((RS_stopResumed \/ RS_stopFailed)
          /\ \E i \in DOMAIN pending :
                /\ pending[i].kind = "RS_stop"
                /\ pending[i].idle
                /\ pending' = Remove(pending, i)) =>
          alert'.kind = "error"]_vars

\* C13: a sample with a timestamp earlier than that of the last sample in
\* the history is rejected: the history and the published snapshot stay as
\* they are.
C13_EarlierSampleRejected ==
    [][(Deliver
          /\ ballHistoryRef # <<>>
          /\ Head(inflight).position.timestamp < Last(ballHistoryRef).timestamp) =>
          UNCHANGED <<ballHistoryRef, ballPositions>>]_vars

-----------------------------------------------------------------------------
\* Kinematics summary.

\* C14: getTrajectoryStats returns null exactly when the snapshot holds
\* fewer than 2 samples.
C14_NullIffFewerThanTwo ==
    (getTrajectoryStats = NoStats) <=> (Len(ballPositions) < 2)

\* A snapshot of one sample has no summary.
C14_OneSampleNoSummary ==
    /\ Len(ballPositions) = 1
    /\ getTrajectoryStats = NoStats

\* C15: in a summary, avgSpeed is the rounded mean and maxSpeed the rounded
\* maximum of the speeds of exactly the samples that carry a velocity, and
\* both are 0 when no sample carries one.
C15_MeanAndMaxOfCarriedSpeeds ==
    getTrajectoryStats # NoStats =>
        LET S == {i \in DOMAIN ballPositions : ballPositions[i].velocity # NoVelocity}
            speed(i) == LET v == ballPositions[i].velocity
                        IN  MathSqrt(RatAdd(RatMul(v.x, v.x), RatMul(v.y, v.y)))
            RECURSIVE total(_)
            total(I) == IF I = {} THEN Rat(0, 1)
                        ELSE LET i == CHOOSE j \in I : TRUE
                             IN  RatAdd(speed(i), total(I \ {i}))
            twice == RatMul(Rat(2, 1), total(S))
            a == getTrajectoryStats.avgSpeed
            m == getTrajectoryStats.maxSpeed
        IN  IF S = {}
            THEN a = 0 /\ m = 0
            ELSE /\ ~RatLess(twice, Rat((2 * a - 1) * Cardinality(S), 1))
                 /\ RatLess(twice, Rat((2 * a + 1) * Cardinality(S), 1))
                 /\ \E i \in S : MathRound(speed(i)) = m
                 /\ \A i \in S : MathRound(speed(i)) <= m

\* Speeds 3, 4 and 5: avgSpeed 4, maxSpeed 5.
C15_ThreeFourFive ==
    /\ Len(ballPositions) = 4
    /\ ballPositions[1].velocity = NoVelocity
    /\ ballPositions[2].velocity = [x |-> Rat(3, 1), y |-> Rat(0, 1)]
    /\ ballPositions[3].velocity = [x |-> Rat(0, 1), y |-> Rat(4, 1)]
    /\ ballPositions[4].velocity = [x |-> Rat(-3, 1), y |-> Rat(-4, 1)]
    /\ getTrajectoryStats.avgSpeed = 4
    /\ getTrajectoryStats.maxSpeed = 5

\* C16: in a summary, duration is (last.timestamp - first.timestamp) / 1000
\* over the whole snapshot, whichever samples carry a velocity, and is not
\* negative when the timestamps of the snapshot do not decrease.
C16_DurationOfWholeSnapshot ==
    getTrajectoryStats # NoStats =>
        LET n == Len(ballPositions)
            span == ballPositions[n].timestamp - ballPositions[1].timestamp
        IN  /\ getTrajectoryStats.duration = Rat(span, 1000)
            /\ (\A i \in 2..n :
                    ballPositions[i - 1].timestamp <= ballPositions[i].timestamp)
                  => getTrajectoryStats.duration[1] >= 0

\* The last of three samples has the timestamp of the second and carries no
\* velocity; the duration is the second between the first and the last.
C16_LastSampleWithoutVelocity ==
    /\ Len(ballPositions) = 3
    /\ ballPositions[2].velocity # NoVelocity
    /\ ballPositions[3].velocity = NoVelocity
    /\ ballPositions[3].timestamp = ballPositions[1].timestamp + 1000
    /\ getTrajectoryStats.duration = Rat(1, 1)

\* C17: a summary is absent whenever fewer than 2 samples of the snapshot
\* carry a velocity.
C17_AbsentBelowTwoVelocities ==
    Cardinality({i \in DOMAIN ballPositions :
                    ballPositions[i].velocity # NoVelocity}) < 2
        => getTrajectoryStats = NoStats

\* C17, as the code has it: a snapshot of 2 or more samples has a summary
\* also when fewer than 2 of its samples carry a velocity; avgSpeed and
\* maxSpeed of that summary are equal.
C17_SummaryWithFewVelocities ==
    (/\ Len(ballPositions) >= 2
     /\ Cardinality({i \in DOMAIN ballPositions :
                        ballPositions[i].velocity # NoVelocity}) < 2)
        => /\ getTrajectoryStats # NoStats
           /\ getTrajectoryStats.avgSpeed = getTrajectoryStats.maxSpeed

\* A snapshot of exactly two samples, the second carrying a velocity, has a
\* summary.
C17_TwoSamplesOneVelocity ==
    /\ Len(ballPositions) = 2
    /\ ballPositions[1].velocity = NoVelocity
    /\ ballPositions[2].velocity # NoVelocity
    /\ getTrajectoryStats # NoStats

-----------------------------------------------------------------------------
\* Trail rendering.

\* C18: in each of the four trail renderings, a newer sample of the rendered
\* window never has a lower opacity than an older one (the lists are in
\* insertion order, so the newer sample is the one at the higher position).
C18_OpacityNonIncreasingWithAge ==
    \A markers \in {VT_trailMarkers, RS_trailMarkers,
                     createTrailPoints(ballPositions),
                     storedDetectionMarkers(ballPositions)} :
        \A older, newer \in DOMAIN markers :
            older < newer =>
                ~RatLess(markers[newer].opacity, markers[older].opacity)

-----------------------------------------------------------------------------
\* Published snapshots.

\* C19: an array published by setBallPositions is a copy of its own: whatever
\* updateBallPosition and clearTrajectory do afterwards, it holds what it held
\* when it was published, and that is never more than 30 samples.
C19_PublishedSnapshotSeparate ==
    \A k \in DOMAIN published :
        /\ published[k].array = published[k].at
        /\ Len(published[k].at) <= Capacity

\* A reader still holds the full snapshot published before the latest insert
\* evicted its oldest sample.
C19_HeldAcrossEviction ==
    /\ Len(insertLog) > Capacity
    /\ Len(published) = 2
    /\ Len(published[1].at) = Capacity
    /\ published[1].at # ballHistoryRef
    /\ published[2].at = ballHistoryRef

-----------------------------------------------------------------------------
\* Session identity.

\* C20: the current session and the completed sessions, taken as distinct
\* session objects, have pairwise distinct ids.
C20_SessionIdsDistinct ==
    LET created == {sessions[k] : k \in DOMAIN sessions}
                       \cup ({currentSession} \ {NoSession})
    IN  \A s, t \in created : s # t => heap[s].id # heap[t].id

\* C21: every session of the completed list has its endTime set, later than
\* its startTime.
C21_EndAfterStart ==
    \A k \in DOMAIN sessions :
        /\ heap[sessions[k]].endTime # NoTime
        /\ heap[sessions[k]].endTime > heap[sessions[k]].startTime

\* C22: in each trail rendering a newer sample of the rendered window never
\* has a smaller radius than an older one, and no radius is below the minimum
\* radius of the rendering (3, 4, 2 and 3).
C22_RadiusNonIncreasingWithAge ==
    LET radii(markers, field) == [k \in DOMAIN markers |-> markers[k][field]]
        renderings ==
            {<<radii(VT_trailMarkers, "r"), 3>>,
             <<radii(RS_trailMarkers, "r"), 4>>,
             <<radii(createTrailPoints(ballPositions), "radius"), 2>>,
             <<radii(storedDetectionMarkers(ballPositions), "r"), 3>>}
    IN  \A rendering \in renderings :
            LET r == rendering[1]
                minRadius == Rat(rendering[2], 1)
            IN  /\ \A k \in DOMAIN r : ~RatLess(r[k], minRadius)
                /\ \A older, newer \in DOMAIN r :
                       older < newer => ~RatLess(r[newer], r[older])

\* C23: in createTrailPoints the point at index i of n has age n - 1 - i, and
\* in createTrailPoints and the stored-detections view the newest point is
\* drawn at the base opacity 1, a one-point trail included.
C23_NewestAtBaseOpacity ==
    LET points == createTrailPoints(ballPositions)
        stored == storedDetectionMarkers(ballPositions)
        n == Len(ballPositions)
    IN  /\ \A k \in DOMAIN points : points[k].age = n - 1 - (k - 1)
        /\ n > 0 => /\ points[n].opacity = Rat(1, 1)
                    /\ stored[n].opacity = Rat(1, 1)

\* C24: whenever a connecting line is drawn (two or more samples), it passes
\* through exactly the samples drawn as trail markers, in the same order, in
\* VolleyballTracker, RecordScreen, the stored-detections view and
\* BallTrailOverlay.
C24_LineThroughMarkers ==
    LET coords(markers) ==
            [k \in DOMAIN markers |-> <<markers[k].pos.x, markers[k].pos.y>>]
        points == createTrailPoints(ballPositions)
        lines == createTrailLines(points)
    IN  Len(ballPositions) > 1 =>
            /\ trajectoryLine(ballPositions) = coords(VT_trailMarkers)
            /\ trajectoryLine(ballPositions) = coords(RS_trailMarkers)
            /\ trajectoryLine(ballPositions)
                   = coords(storedDetectionMarkers(ballPositions))
            /\ Len(lines) = Len(points) - 1
            /\ \A k \in DOMAIN lines :
                   lines[k].from = points[k].pos /\ lines[k].to = points[k + 1].pos

\* C25: two samples that are both in the buffer and in the positions of the
\* current session (each once) are in the same order in both; and while a
\* session is active and the buffer was not cleared after a sample of the
\* session (every sample delivered during the session is still in the log
\* of inserts since the last clear), the buffer is the last min(30, n) of the
\* n positions of the session.
C25_BufferFollowsSession ==
    (isRecording /\ currentSession # NoSession) =>
        LET positions == heap[currentSession].positions
            n == Len(positions)
            during == detected[currentSession]
            once(seq, x) == Cardinality({k \in DOMAIN seq : seq[k] = x}) = 1
            tail(seq, m) == SubSeq(seq, Len(seq) - m + 1, Len(seq))
        IN  /\ \A i, j \in DOMAIN ballHistoryRef : \A a, b \in DOMAIN positions :
                   (/\ i < j
                    /\ ballHistoryRef[i] = positions[a]
                    /\ ballHistoryRef[j] = positions[b]
                    /\ once(ballHistoryRef, positions[a]) /\ once(positions, positions[a])
                    /\ once(ballHistoryRef, positions[b]) /\ once(positions, positions[b]))
                       => a < b
            /\ (/\ Len(during) <= Len(insertLog)
                /\ tail(insertLog, Len(during)) = during)
                   => ballHistoryRef
                         = tail(positions, IF n < Capacity THEN n ELSE Capacity)

-----------------------------------------------------------------------------
\* Tracking on and off.

\* C26: while tracking is off no sample is inserted into the buffer: a step
\* taken with tracking off leaves the log of inserts as it is or empties it.
\* (The model has one interval ref, cleared before it is set again, so that
\* at most one interval is live holds by construction of startSimulation.)
C26_NoInsertWhileTrackingOff ==
    [][~isTracking => (insertLog' = insertLog \/ insertLog' = <<>>)]_vars

\* C27: in the simulation mode of VolleyballTracker, while tracking is on,
\* the interval is live and its tick delivers a sample to updateBallPosition
\* (as long as the source has samples left to produce).
C27_TickDeliversSample ==
    (/\ screen = "VolleyballTracker"
     /\ simulation
     /\ isTracking
     /\ nDetections < MaxDetections
     /\ nDetections + Len(heap) < MaxWork)
        => ENABLED <<VT_simulationTick>>_vars

-----------------------------------------------------------------------------
\* Overlapping stops and error paths.

\* C28: no session is in the completed list twice.
C28_CompletedAtMostOnce ==
    \A j, k \in DOMAIN sessions : sessions[j] = sessions[k] => j = k

\* C29: once recording is no longer active (no recording, no current
\* session, no start or stop still awaiting the camera), every session that
\* was created is in the completed list.
C29_NoSessionLost ==
    (Idle /\ pending = <<>>) =>
        \A s \in DOMAIN heap : \E k \in DOMAIN sessions : sessions[k] = s

\* C30: isRecording is true exactly when there is a current session.
C30_RecordingIffCurrentSession ==
    isRecording <=> (currentSession # NoSession)

=============================================================================
